---- MODULE Spec2Model ----
(***************************************************************************)
(* Model of the GroupChat component                                        *)
(* (src/learnconnect-release/frontend/client/components/ui/GroupChat.tsx): *)
(* one mounted instance of the component, the WebSocket objects and timers *)
(* it created, the history requests it has in flight, and the browser      *)
(* events that drive its handlers.                                         *)
(*                                                                         *)
(* A WebSocket object is a slot of `sockets`; a slot is free (CLOSED) once *)
(* the object's close event has been delivered, after which no handler of  *)
(* that object runs again.  A timer is a slot of `timers`, free once it    *)
(* has fired or been cleared.  Every socket and timer remembers the        *)
(* groupId its closure captured (useCallback(..., [groupId])).             *)
(***************************************************************************)
EXTENDS Integers, Sequences, FiniteSets, TLC

\* ---------------------------------------------------------------- bounds
\* WebSocket objects that may be not-yet-closed at the same time.
MaxSockets == 2
\* setTimeout timers that may be pending at the same time.
MaxTimers == 2
\* Times the effect may run: the mount and the later changes of groupId.
MaxActivations == 2
\* Message identifiers are 1..MaxMsgId.
MaxMsgId == 2
\* Live frames that the arrival record keeps after a history response.
MaxLive == 3

Groups == {1, 2}
MsgIds == 1..MaxMsgId
SocketIds == 1..MaxSockets
TimerIds == 1..MaxTimers

\* localStorage.getItem("token"): null, the empty string, or a token.
NoToken == "null"
Tokens == {NoToken, "", "tok"}

\* Values of the input box, as sequences of characters.
Bodies == {<<>>, <<" ">>, <<"a">>, <<" ", "a">>}

VARIABLES
    mounted,              \* the component instance is mounted
    activations,          \* times the effect of lines 115-118 has run
    groupId,              \* the groupId prop of the last render
    token,                \* localStorage "token"
    messages,             \* useState<Message[]>: the identifiers, in order
    connectionStatus,     \* useState<ConnectionStatus>
    wsRef,                \* wsRef.current: a socket slot, or 0 for null
    reconnectTimeoutRef,  \* reconnectTimeoutRef.current: a timer slot, or 0
    sockets,              \* the WebSocket objects created by the instance
    timers,               \* the setTimeout timers created by the instance
    fetches,              \* history requests in flight, per captured groupId
    requests,             \* history requests issued so far (fetch, line 38)
    delivered,            \* identifiers delivered since the last activation
    arrival,              \* record of the last history response and the
                          \* live frames after it (kept only when switched on)
    sent,                 \* the frames the last step handed to the transport
    thrown                \* the last step's handler raised an exception

vars == <<mounted, activations, groupId, token, messages, connectionStatus,
          wsRef, reconnectTimeoutRef, sockets, timers, fetches, requests,
          delivered, arrival, sent, thrown>>

FreeSocket == [rs |-> "CLOSED", group |-> 0]
FreeTimer == [pending |-> FALSE, group |-> 0]

\* ------------------------------------------------------- pure helpers

RECURSIVE TrimStart(_)
TrimStart(b) ==
    IF b # <<>> /\ Head(b) = " " THEN TrimStart(Tail(b)) ELSE b

RECURSIVE TrimEnd(_)
TrimEnd(b) ==
    IF b # <<>> /\ b[Len(b)] = " " THEN TrimEnd(SubSeq(b, 1, Len(b) - 1)) ELSE b

\* String.prototype.trim
Trim(b) == TrimEnd(TrimStart(b))

Ids(list) == {list[i] : i \in 1..Len(list)}

NoDuplicates(list) ==
    \A i, j \in 1..Len(list) : list[i] = list[j] => i = j

\* The sequences of pairwise distinct identifiers: what a
\* history response may hold.
Histories ==
    {h \in UNION {[1..n -> MsgIds] : n \in 0..MaxMsgId} : NoDuplicates(h)}

\* A check for null alone, which lets the empty string through.
TokenIsNull(t) == t = NoToken

\* if (!token)
TokenMissing(t) == t = NoToken \/ t = ""

\* WebSocket.close(): a connecting socket fails (error, then close), an open
\* one starts the closing handshake; otherwise nothing happens.
CloseSocket(socks, s) ==
    [socks EXCEPT ![s].rs =
        CASE @ = "CONNECTING" -> "FAILED"
          [] @ = "OPEN" -> "CLOSING"
          [] OTHER -> @]

HasFreeSocket(socks) == \E s \in SocketIds : socks[s].rs = "CLOSED"
NewSocket(socks) == CHOOSE s \in SocketIds :
    /\ socks[s].rs = "CLOSED"
    /\ \A r \in SocketIds : socks[r].rs = "CLOSED" => s <= r

HasFreeTimer(tms) == \E t \in TimerIds : ~tms[t].pending
NewTimer(tms) == CHOOSE t \in TimerIds :
    /\ ~tms[t].pending
    /\ \A r \in TimerIds : ~tms[r].pending => t <= r

\* clearTimeout(handle)
ClearTimer(tms, t) == [tms EXCEPT ![t] = FreeTimer]

\* The arrival record: whether it is kept at all; its phase ("none" until a
\* history response is seen, "tracking" while every live frame since that
\* response is in `live`, "full" once more than MaxLive frames followed it);
\* that response; and the identifiers of the live frames after it, in the
\* order of arrival.
ArrivalEmpty(on, phase) == [on |-> on, phase |-> phase, history |-> <<>>, live |-> <<>>]

\* A history response `data` was handed to setMessages (line 45).
RecordHistory(a, data) ==
    IF a.on THEN [on |-> TRUE, phase |-> "tracking", history |-> data, live |-> <<>>] ELSE a

\* A live frame with identifier m was handed to the updater (lines 84-85).
RecordLive(a, m) ==
    IF a.on /\ a.phase = "tracking"
    THEN IF Len(a.live) < MaxLive
         THEN [a EXCEPT !.live = Append(@, m)]
         ELSE ArrivalEmpty(TRUE, "full")
    ELSE a

\* ---------------------------------------------------------------- Init
\* connectWebSocket (lines 53-112) on the sockets `socks` and handle `ws`:
\* the connection state, the sockets and the handle it leaves.  The caller
\* checks CanConnect first.
Connect(g, tok, socks, ws) ==
    IF TokenMissing(tok)
    THEN [status |-> "error", sockets |-> socks, wsRef |-> ws]
    ELSE LET closed == IF ws # 0 THEN CloseSocket(socks, ws) ELSE socks
             n == NewSocket(closed)
         IN  [status |-> "connecting",
              sockets |-> [closed EXCEPT ![n] = [rs |-> "CONNECTING", group |-> g]],
              wsRef |-> n]

\* The model has a slot for the WebSocket that connectWebSocket creates.
CanConnect(tok, socks) == TokenMissing(tok) \/ HasFreeSocket(socks)

\* fetchInitialMessages (lines 35-42): the request goes out whatever the token.
IssueFetch(f, g) == [f EXCEPT ![g] = @ + 1]

\* The effect's cleanup (lines 120-127).
CleanupSockets(socks, ws) == IF ws # 0 THEN CloseSocket(socks, ws) ELSE socks
CleanupTimers(tms, ref) == IF ref # 0 THEN ClearTimer(tms, ref) ELSE tms

\* The state after the first render's effect (lines 115-118) has run.
InitBase ==
    /\ mounted = TRUE
    /\ activations = 1
    /\ groupId \in Groups
    /\ token \in Tokens
    /\ messages = <<>>
    /\ reconnectTimeoutRef = 0
    /\ timers = [t \in TimerIds |-> FreeTimer]
    /\ fetches = IssueFetch([g \in Groups |-> 0], groupId)
    /\ LET c == Connect(groupId, token, [s \in SocketIds |-> FreeSocket], 0)
       IN  /\ connectionStatus = c.status
           /\ sockets = c.sockets
           /\ wsRef = c.wsRef
    /\ requests = 1
    /\ delivered = {}
    /\ sent = {}
    /\ thrown = FALSE

Init == InitBase /\ arrival = ArrivalEmpty(FALSE, "none")

\* The same state with a stored token and the arrival record switched on.
InitObserved == InitBase /\ token = "tok" /\ arrival = ArrivalEmpty(TRUE, "none")

\* ------------------------------------------------------------- actions
Quiet == sent' = {} /\ thrown' = FALSE

\* A channel change that empties the message list.
ChangeGroupClearingList(g) ==
    /\ mounted
    /\ g # groupId
    /\ activations < MaxActivations
    /\ activations' = activations + 1
    /\ CanConnect(token, sockets)
    /\ groupId' = g
    /\ timers' = CleanupTimers(timers, reconnectTimeoutRef)
    /\ fetches' = IssueFetch(fetches, g)
    /\ LET c == Connect(g, token, CleanupSockets(sockets, wsRef), wsRef)
       IN  /\ connectionStatus' = c.status
           /\ sockets' = c.sockets
           /\ wsRef' = c.wsRef
    /\ requests' = requests + 1
    /\ delivered' = {}
    /\ messages' = <<>>
    /\ Quiet
    /\ UNCHANGED <<mounted, token, reconnectTimeoutRef, arrival>>

\* The groupId prop changes: the cleanup of the old effect runs, then the
\* effect runs again with the new callbacks (lines 115-128).
ChangeGroup(g) ==
    /\ mounted
    /\ g # groupId
    /\ activations < MaxActivations
    /\ activations' = activations + 1
    /\ CanConnect(token, sockets)
    /\ groupId' = g
    /\ timers' = CleanupTimers(timers, reconnectTimeoutRef)
    /\ fetches' = IssueFetch(fetches, g)
    /\ LET c == Connect(g, token, CleanupSockets(sockets, wsRef), wsRef)
       IN  /\ connectionStatus' = c.status
           /\ sockets' = c.sockets
           /\ wsRef' = c.wsRef
    /\ requests' = requests + 1
    /\ delivered' = {}
    /\ Quiet
    /\ UNCHANGED <<mounted, token, messages, reconnectTimeoutRef, arrival>>

\* A cleanup that also resets the displayed connection state.
UnmountResettingState ==
    /\ mounted
    /\ mounted' = FALSE
    /\ sockets' = CleanupSockets(sockets, wsRef)
    /\ timers' = CleanupTimers(timers, reconnectTimeoutRef)
    /\ connectionStatus' = "disconnected"
    /\ Quiet
    /\ UNCHANGED <<activations, groupId, token, messages,
                   wsRef, reconnectTimeoutRef, fetches, delivered,
                   requests, arrival>>

\* The component unmounts: only the cleanup runs.
Unmount ==
    /\ mounted
    /\ mounted' = FALSE
    /\ sockets' = CleanupSockets(sockets, wsRef)
    /\ timers' = CleanupTimers(timers, reconnectTimeoutRef)
    /\ Quiet
    /\ UNCHANGED <<activations, groupId, token, messages, connectionStatus,
                   wsRef, reconnectTimeoutRef, fetches, delivered,
                   requests, arrival>>

\* ws.onopen (lines 73-81).
OnOpen ==
    /\ connectionStatus' = "connected"
    /\ IF reconnectTimeoutRef # 0
       THEN /\ timers' = ClearTimer(timers, reconnectTimeoutRef)
            /\ reconnectTimeoutRef' = 0
       ELSE UNCHANGED <<timers, reconnectTimeoutRef>>
    /\ UNCHANGED <<messages, wsRef>>

\* The browser opens socket s and fires its open event.
Open(s) ==
    /\ sockets[s].rs = "CONNECTING"
    /\ sockets' = [sockets EXCEPT ![s].rs = "OPEN"]
    /\ OnOpen
    /\ Quiet
    /\ UNCHANGED <<mounted, activations, groupId, token, fetches, delivered,
                   requests, arrival>>

\* An updater without the duplicate check of lines 87-89.
MergeAlwaysAppend(prev, m) == Append(prev, m)

\* An updater that puts a new message first.
MergePrepending(prev, m) ==
    IF \E i \in 1..Len(prev) : prev[i] = m THEN prev ELSE <<m>> \o prev

\* The updater of ws.onmessage (lines 85-91).
Merge(prev, m) == IF \E i \in 1..Len(prev) : prev[i] = m THEN prev ELSE Append(prev, m)

\* A frame holding message m arrives on socket s (lines 83-92).
Message(s, m) ==
    /\ sockets[s].rs = "OPEN"
    /\ messages' = Merge(messages, m)
    /\ delivered' = IF sockets[s].group = groupId THEN delivered \cup {m} ELSE delivered
    /\ arrival' = RecordLive(arrival, m)
    /\ Quiet
    /\ UNCHANGED <<mounted, activations, groupId, token, connectionStatus, wsRef,
                   reconnectTimeoutRef, sockets, timers, fetches, requests>>

\* A frame that is not JSON arrives on socket s: JSON.parse (line 84) throws
\* out of the handler before setMessages is reached.
MessageBad(s) ==
    /\ sockets[s].rs = "OPEN"
    /\ sent' = {}
    /\ thrown' = TRUE
    /\ UNCHANGED <<mounted, activations, groupId, token, messages, connectionStatus,
                   wsRef, reconnectTimeoutRef, sockets, timers, fetches, delivered,
                   requests, arrival>>

\* An error handler that also empties the connection handle.
OnErrorClearingHandle ==
    /\ connectionStatus' = "error"
    /\ wsRef' = 0
    /\ UNCHANGED <<messages, reconnectTimeoutRef, timers>>

\* ws.onerror (lines 94-97).
OnError ==
    /\ connectionStatus' = "error"
    /\ UNCHANGED <<messages, wsRef, reconnectTimeoutRef, timers>>

\* The connection of socket s fails (or was closed while connecting): the
\* browser fires the error event; the close event follows.
Error(s) ==
    /\ sockets[s].rs \in {"CONNECTING", "OPEN", "FAILED"}
    /\ sockets' = [sockets EXCEPT ![s].rs = "ERRORED"]
    /\ OnError
    /\ Quiet
    /\ UNCHANGED <<mounted, activations, groupId, token, fetches, delivered,
                   requests, arrival>>

\* A close handler that leaves the connection handle as it is.
OnCloseKeepingHandle(g) ==
    /\ connectionStatus' = "disconnected"
    /\ wsRef' = wsRef
    /\ LET t == NewTimer(timers)
       IN  /\ timers' = [timers EXCEPT ![t] = [pending |-> TRUE, group |-> g]]
           /\ reconnectTimeoutRef' = t
    /\ UNCHANGED messages

\* A close handler that leaves the state alone when it shows an error.
OnCloseKeepingError(g) ==
    /\ connectionStatus' = IF connectionStatus = "error" THEN "error" ELSE "disconnected"
    /\ wsRef' = 0
    /\ LET t == NewTimer(timers)
       IN  /\ timers' = [timers EXCEPT ![t] = [pending |-> TRUE, group |-> g]]
           /\ reconnectTimeoutRef' = t
    /\ UNCHANGED messages

\* ws.onclose (lines 99-109) of a socket whose closure captured group g.
OnClose(g) ==
    /\ connectionStatus' = "disconnected"
    /\ wsRef' = 0
    /\ LET t == NewTimer(timers)
       IN  /\ timers' = [timers EXCEPT ![t] = [pending |-> TRUE, group |-> g]]
           /\ reconnectTimeoutRef' = t
    /\ UNCHANGED messages

\* The browser fires the close event of socket s: after a clean close by the
\* server, after close(), or after an error.
Close(s) ==
    /\ sockets[s].rs \in {"OPEN", "CLOSING", "ERRORED"}
    /\ HasFreeTimer(timers)
    /\ sockets' = [sockets EXCEPT ![s] = FreeSocket]
    /\ OnClose(sockets[s].group)
    /\ Quiet
    /\ UNCHANGED <<mounted, activations, groupId, token, fetches, delivered,
                   requests, arrival>>

\* A timer callback whose connect does not set the state to connecting.
TimerFireKeepingStatus(t) ==
    /\ timers[t].pending
    /\ CanConnect(token, sockets)
    /\ timers' = ClearTimer(timers, t)
    /\ LET c == Connect(timers[t].group, token, sockets, wsRef)
       IN  /\ connectionStatus' =
                  IF c.status = "connecting" THEN connectionStatus ELSE c.status
           /\ sockets' = c.sockets
           /\ wsRef' = c.wsRef
    /\ Quiet
    /\ UNCHANGED <<mounted, activations, groupId, token, messages,
                   reconnectTimeoutRef, fetches, delivered,
                   requests, arrival>>

\* A timer callback that fetches the history again before it reconnects.
TimerFireRefetching(t) ==
    /\ timers[t].pending
    /\ CanConnect(token, sockets)
    /\ timers' = ClearTimer(timers, t)
    /\ fetches' = IssueFetch(fetches, timers[t].group)
    /\ requests' = requests + 1
    /\ LET c == Connect(timers[t].group, token, sockets, wsRef)
       IN  /\ connectionStatus' = c.status
           /\ sockets' = c.sockets
           /\ wsRef' = c.wsRef
    /\ Quiet
    /\ UNCHANGED <<mounted, activations, groupId, token, messages,
                   reconnectTimeoutRef, delivered, arrival>>

\* The reconnection timer t fires (lines 105-108): connectWebSocket of the
\* closure that scheduled it.
TimerFire(t) ==
    /\ timers[t].pending
    /\ CanConnect(token, sockets)
    /\ timers' = ClearTimer(timers, t)
    /\ LET c == Connect(timers[t].group, token, sockets, wsRef)
       IN  /\ connectionStatus' = c.status
           /\ sockets' = c.sockets
           /\ wsRef' = c.wsRef
    /\ Quiet
    /\ UNCHANGED <<mounted, activations, groupId, token, messages,
                   reconnectTimeoutRef, fetches, delivered,
                   requests, arrival>>

\* A history response that is merged into the list frame by frame.
RECURSIVE MergeAll(_, _)
MergeAll(prev, data) ==
    IF data = <<>> THEN prev ELSE MergeAll(Merge(prev, Head(data)), Tail(data))

FetchOkMerging(g, data) ==
    /\ fetches[g] > 0
    /\ fetches' = [fetches EXCEPT ![g] = @ - 1]
    /\ messages' = MergeAll(messages, data)
    /\ delivered' = IF g = groupId THEN delivered \cup Ids(data) ELSE delivered
    /\ arrival' = RecordHistory(arrival, data)
    /\ Quiet
    /\ UNCHANGED <<mounted, activations, groupId, token, connectionStatus, wsRef,
                   reconnectTimeoutRef, sockets, timers, requests>>

\* The history request of group g resolves with a 2xx response holding
\* `data` (lines 43-46).
FetchOk(g, data) ==
    /\ fetches[g] > 0
    /\ fetches' = [fetches EXCEPT ![g] = @ - 1]
    /\ messages' = data
    /\ delivered' = IF g = groupId THEN delivered \cup Ids(data) ELSE delivered
    /\ arrival' = RecordHistory(arrival, data)
    /\ Quiet
    /\ UNCHANGED <<mounted, activations, groupId, token, connectionStatus, wsRef,
                   reconnectTimeoutRef, sockets, timers, requests>>

\* A failed history request that empties the list.
FetchFailClearingList(g) ==
    /\ fetches[g] > 0
    /\ fetches' = [fetches EXCEPT ![g] = @ - 1]
    /\ messages' = <<>>
    /\ Quiet
    /\ UNCHANGED <<mounted, activations, groupId, token, connectionStatus,
                   wsRef, reconnectTimeoutRef, sockets, timers, delivered,
                   requests, arrival>>

\* The history request of group g fails: a non-2xx response (line 43) or a
\* rejected fetch (lines 47-49).
FetchFail(g) ==
    /\ fetches[g] > 0
    /\ fetches' = [fetches EXCEPT ![g] = @ - 1]
    /\ Quiet
    /\ UNCHANGED <<mounted, activations, groupId, token, messages, connectionStatus,
                   wsRef, reconnectTimeoutRef, sockets, timers, delivered,
                   requests, arrival>>

\* An early return that does not look at the connection state.
SendRejectedIgnoringStatus(text) == Trim(text) = <<>> \/ wsRef = 0

\* The early return of handleSendMessage (line 137) for the input text.
SendRejected(text) ==
    Trim(text) = <<>> \/ wsRef = 0 \/ connectionStatus # "connected"

\* WebSocket.send(data) on socket s: throws while the socket is connecting,
\* transmits while it is open, and drops the data once it is closing.
SendOutcome(s) ==
    CASE sockets[s].rs = "CONNECTING" -> "throws"
      [] sockets[s].rs = "OPEN" -> "transmits"
      [] OTHER -> "drops"

\* The frame of lines 142-146.
Frame(text) == [content |-> text]

\* handleSendMessage (lines 135-149) with `text` in the input box.  The
\* input box (newMessage) is read by no other handler and is an input of
\* the step: the user's edit and the submit.
HandleSendMessage(text) ==
    /\ mounted
    /\ IF ~SendRejected(text) /\ SendOutcome(wsRef) = "transmits"
       THEN sent' = {[socket |-> wsRef, frame |-> Frame(text)]}
       ELSE sent' = {}
    /\ thrown' = (~SendRejected(text) /\ SendOutcome(wsRef) = "throws")
    /\ UNCHANGED <<mounted, activations, groupId, token, messages, connectionStatus, wsRef,
                   reconnectTimeoutRef, sockets, timers, fetches, delivered,
                   requests, arrival>>

\* Another part of the application removes the stored token (a logout).
RemoveToken ==
    /\ token # NoToken
    /\ token' = NoToken
    /\ Quiet
    /\ UNCHANGED <<mounted, activations, groupId, messages, connectionStatus, wsRef,
                   reconnectTimeoutRef, sockets, timers, fetches, delivered,
                   requests, arrival>>

\* The steps that leave the message list alone: the life cycle of the
\* connection, the reconnection timer, the send path, and a history request
\* that fails.
NextConnection ==
    \/ \E g \in Groups : ChangeGroup(g)
    \/ Unmount
    \/ \E s \in SocketIds : Open(s)
    \/ \E s \in SocketIds : Error(s)
    \/ \E s \in SocketIds : Close(s)
    \/ \E t \in TimerIds : TimerFire(t)
    \/ \E g \in Groups : FetchFail(g)
    \/ \E text \in Bodies : HandleSendMessage(text)
    \/ RemoveToken

\* The steps that deliver messages.
NextMessages ==
    \/ \E s \in SocketIds, m \in MsgIds : Message(s, m)
    \/ \E s \in SocketIds : MessageBad(s)
    \/ \E g \in Groups, data \in Histories : FetchOk(g, data)

Next == NextConnection \/ NextMessages

\* Every step of the component.
Spec == Init /\ [][Next]_vars

\* The component with the message list left out: Message, MessageBad and
\* FetchOk write none of the variables that NextConnection reads, except that
\* FetchOk ends a history request, as FetchFail does.  A state of Spec and
\* the state of SpecConnection with the same connection variables have the
\* same NextConnection steps.
SpecConnection == Init /\ [][NextConnection]_vars

\* The close event that the transport delivers after an error event.
CloseAfterError(s) == sockets[s].rs = "ERRORED" /\ Close(s)

\* SpecConnection with a transport that delivers the close event after every
\* error event.  Nothing else is assumed to happen: an open connection may
\* stay open and a connecting one may stay connecting.
SpecConnectionFair ==
    /\ Init /\ [][NextConnection]_vars
    /\ \A s \in SocketIds : WF_vars(CloseAfterError(s))

\* The steps of one activation: the component stays mounted on its channel
\* and the token stays stored.
NextActivation ==
    \/ \E s \in SocketIds : Open(s)
    \/ \E s \in SocketIds : Error(s)
    \/ \E s \in SocketIds : Close(s)
    \/ \E t \in TimerIds : TimerFire(t)
    \/ \E g \in Groups : FetchFail(g)
    \/ \E text \in Bodies : HandleSendMessage(text)
    \/ \E s \in SocketIds, m \in MsgIds : Message(s, m)
    \/ \E s \in SocketIds : MessageBad(s)
    \/ \E g \in Groups, data \in Histories : FetchOk(g, data)

\* One activation, with the arrival record kept.
SpecActivation == InitObserved /\ [][NextActivation]_vars

TypeOK ==
    /\ mounted \in BOOLEAN
    /\ activations \in 1..MaxActivations
    /\ groupId \in Groups
    /\ token \in Tokens
    /\ messages \in Histories
    /\ connectionStatus \in {"connecting", "connected", "disconnected", "error"}
    /\ wsRef \in 0..MaxSockets
    /\ reconnectTimeoutRef \in 0..MaxTimers
    /\ requests \in 1..MaxActivations
    /\ delivered \subseteq MsgIds
    /\ arrival.on \in BOOLEAN /\ arrival.phase \in {"none", "tracking", "full"}
    /\ arrival.history \in Histories /\ Len(arrival.live) <= MaxLive
    /\ thrown \in BOOLEAN

\* ------------------------------------------------------------- claims
Live(s) == sockets[s].rs \in {"CONNECTING", "OPEN"}
LiveSockets == {s \in SocketIds : Live(s)}
PendingTimers == {t \in TimerIds : timers[t].pending}
Occurrences(list, m) == Cardinality({i \in 1..Len(list) : list[i] = m})
\* Socket s was created by this step.
Created(s) == sockets[s].rs = "CLOSED" /\ sockets'[s].rs = "CONNECTING"
\* The text is empty after trimming: it holds nothing but spaces.
Blank(text) == \A i \in 1..Len(text) : text[i] = " "

\* C1: in the first activation, whatever the order of the history response
\* and the live frames, every identifier delivered to the client is in the
\* message list exactly once.
C1_DeliveredExactlyOnce ==
    activations = 1 => \A m \in delivered : Occurrences(messages, m) = 1

\* C2: at most one connection of the session is connecting or open.
C2_AtMostOneLiveConnection == Cardinality(LiveSockets) <= 1

\* C3: after the unmount's teardown no reconnection timer is pending and no
\* connection is being attempted.
C3_QuietAfterTeardown ==
    ~mounted => PendingTimers = {} /\ \A s \in SocketIds : sockets[s].rs # "CONNECTING"

\* C4: at most one reconnection timer is pending.
C4_AtMostOnePendingTimer == Cardinality(PendingTimers) <= 1

\* C5: a send whose text is empty after trimming, or issued while the state is
\* not connected or while there is no handle, hands no frame to the transport,
\* raises nothing, and leaves the messages, the connection state, the handle
\* and the timer as they were.
C5_RejectedSendIsNoOp ==
    [][\A text \in Bodies :
        (/\ HandleSendMessage(text)
         /\ (Blank(text) \/ connectionStatus # "connected" \/ wsRef = 0))
        => /\ sent' = {}
           /\ thrown' = FALSE
           /\ UNCHANGED <<messages, connectionStatus, wsRef, reconnectTimeoutRef,
                          timers, sockets>>]_vars

\* A state in which only the connection state stands between a text and the
\* open connection in the handle, after a send has been turned down.
C5_Witness ==
    /\ mounted
    /\ wsRef # 0
    /\ sockets[wsRef].rs = "OPEN"
    /\ connectionStatus # "connected"
    /\ sent = {}
    /\ ~thrown

\* C6: while the component stays mounted in one activation and a token is
\* stored, the reconnection timer that the close of a connection to the
\* current channel scheduled stops being pending only by firing, and its
\* firing creates exactly one new connection.
C6_EveryCloseReconnects ==
    [][\A t \in TimerIds :
        (/\ timers[t].pending
         /\ timers[t].group = groupId
         /\ ~timers'[t].pending
         /\ mounted'
         /\ activations' = activations
         /\ token = "tok")
        => Cardinality({s \in SocketIds : Created(s)}) = 1]_vars

\* C7: every connection that is created is a connection to the channel of
\* the current groupId.
C7_NoConnectToOldChannel ==
    [][\A s \in SocketIds : Created(s) => sockets'[s].group = groupId']_vars

\* C8: the message list holds no identifier twice.
C8_UniqueIdentifiers == NoDuplicates(messages)

\* The list holds every identifier while a connection is open: every further
\* frame is a duplicate.
C8_Witness ==
    /\ Len(messages) = MaxMsgId
    /\ \E s \in SocketIds : sockets[s].rs = "OPEN"

\* C9: when the effect or a reconnection timer runs connectWebSocket while no
\* token is stored (null or empty), the state becomes error, no connection is
\* created, no timer is scheduled and nothing is raised.
C9_NoTokenNoConnection ==
    /\ token # "tok" =>
        /\ connectionStatus = "error"
        /\ \A s \in SocketIds : sockets[s] = FreeSocket
        /\ PendingTimers = {}
        /\ ~thrown
    /\ [][(/\ token # "tok"
           /\ \/ \E g \in Groups : ChangeGroup(g)
              \/ \E t \in TimerIds : TimerFire(t))
          => /\ connectionStatus' = "error"
             /\ \A s \in SocketIds : ~Created(s)
             /\ \A t \in TimerIds : timers'[t].pending => timers[t].pending
             /\ reconnectTimeoutRef' = reconnectTimeoutRef
             /\ ~thrown']_vars

\* A reconnection timer has fired without a stored token: the state is error,
\* and there is neither a connection nor a pending timer.
C9_Witness ==
    /\ mounted
    /\ token = NoToken
    /\ connectionStatus = "error"
    /\ reconnectTimeoutRef # 0
    /\ wsRef = 0
    /\ \A s \in SocketIds : sockets[s] = FreeSocket
    /\ PendingTimers = {}

\* C10: a send of a text that is not empty after trimming, in state connected
\* and with a handle, hands exactly the frame {content: text} to the
\* connection in the handle, raises nothing, and leaves the messages, the
\* connection state, the handle and the timer as they were.
C10_AcceptedSendForwardsFrame ==
    [][\A text \in Bodies :
        (/\ HandleSendMessage(text)
         /\ ~Blank(text)
         /\ connectionStatus = "connected"
         /\ wsRef # 0)
        => /\ sent' = {[socket |-> wsRef, frame |-> [content |-> text]]}
           /\ thrown' = FALSE
           /\ UNCHANGED <<messages, connectionStatus, wsRef, reconnectTimeoutRef,
                          timers, sockets>>]_vars

\* C11: a history request that fails leaves the message list, the connection
\* state, the connection handle, the timer handle, the timers and the
\* connections as they were and throws nothing; the connection can still
\* become connected afterwards (C11_Witness).
C11_FailedFetchChangesNothing ==
    [][\A g \in Groups :
         FetchFail(g) =>
             /\ UNCHANGED <<messages, connectionStatus, wsRef, reconnectTimeoutRef,
                            timers, sockets>>
             /\ thrown' = FALSE]_vars

\* The history request has failed, the list holds a live message and the
\* session is connected.
C11_Witness ==
    /\ fetches[groupId] = 0 /\ arrival.on /\ arrival.phase = "none"
    /\ messages # <<>>
    /\ connectionStatus = "connected"
    /\ wsRef # 0 /\ sockets[wsRef].rs = "OPEN"

\* C12: a history response replaces the message list by exactly the sequence
\* it returned, whatever the list held before.
C12_HistoryReplacesList ==
    [][\A g \in Groups, data \in Histories : FetchOk(g, data) => messages' = data]_vars

\* The response has just replaced a list that held a live message which the
\* response does not contain.
C12_Witness ==
    /\ arrival.phase = "tracking" /\ arrival.live = <<>>
    /\ messages = arrival.history
    /\ delivered \ Ids(messages) # {}

\* C13: the number of history requests issued equals the number of
\* activations, and a step that is not an activation (open, error, close,
\* timer, send, unmount) issues no history request.
C13_OneFetchPerActivation ==
    /\ [](requests = activations)
    /\ [][activations' = activations =>
             /\ requests' = requests
             /\ \A g \in Groups : fetches'[g] <= fetches[g]]_vars

\* The second activation has closed and reconnected since it started: a
\* timer has fired and its connection is in the handle.
C13_Witness ==
    /\ activations = MaxActivations /\ requests = MaxActivations
    /\ reconnectTimeoutRef # 0 /\ PendingTimers = {}
    /\ wsRef # 0 /\ sockets[wsRef].group = groupId /\ Live(wsRef)

\* C14: while the component stays mounted, the close of the connection of a
\* connected session sets the state to disconnected and schedules a
\* reconnection; the timer it scheduled for the current channel ends only by
\* firing, which is the new connect attempt; and the open event of an attempt
\* sets the state to connected with no reconnection timer pending.
C14_CloseLeadsToReconnect ==
    /\ [][\A s \in SocketIds :
            (Close(s) /\ mounted /\ s = wsRef /\ connectionStatus = "connected") =>
                /\ connectionStatus' = "disconnected"
                /\ reconnectTimeoutRef' # 0
                /\ timers'[reconnectTimeoutRef'].pending]_vars
    /\ [][\A t \in TimerIds :
            (/\ timers[t].pending /\ ~timers'[t].pending
             /\ t = reconnectTimeoutRef /\ timers[t].group = groupId
             /\ mounted' /\ activations' = activations) => TimerFire(t)]_vars
    /\ [][\A s \in SocketIds :
            (Open(s) /\ mounted) =>
                connectionStatus' = "connected" /\ PendingTimers' = {}]_vars

\* C15: the teardown is idempotent.  With no connection in the handle and no
\* timer in the timer handle it changes nothing; it throws nothing; it leaves
\* the connection state, the message list and both handles as they were; and
\* running it again on the state it left changes neither the connections
\* nor the timers.
C15_TeardownIdempotent ==
    [][Unmount =>
         /\ CleanupSockets(sockets', wsRef') = sockets'
         /\ CleanupTimers(timers', reconnectTimeoutRef') = timers'
         /\ thrown' = FALSE
         /\ UNCHANGED <<connectionStatus, messages, wsRef, reconnectTimeoutRef>>
         /\ (wsRef = 0 /\ reconnectTimeoutRef = 0 => UNCHANGED <<sockets, timers>>)]_vars

\* The teardown has run with a connection in the handle and a timer in the
\* timer handle.
C15_Witness ==
    /\ ~mounted
    /\ wsRef # 0 /\ sockets[wsRef].rs \in {"FAILED", "CLOSING"}
    /\ reconnectTimeoutRef # 0

\* C16: the state becomes connected only from connecting; in particular it
\* never goes from disconnected or error directly to connected.
C16_ConnectedOnlyFromConnecting ==
    [][(connectionStatus' = "connected" /\ connectionStatus # "connected") =>
           connectionStatus = "connecting"]_vars

\* C17: no step raises an exception: a failed history request, a transport
\* error, a missing token, a rejected or an accepted send, and an inbound
\* frame that cannot be decoded each end in a state change or in nothing.
C17_NothingThrown == thrown = FALSE

\* The frames of L, from position i on, whose identifier is neither in H nor
\* at an earlier position of L, in the order of L.
RECURSIVE NewFrames(_, _, _)
NewFrames(H, L, i) ==
    IF i > Len(L) THEN <<>>
    ELSE (IF L[i] \notin Ids(H) /\ \A j \in 1..(i - 1) : L[j] # L[i]
          THEN <<L[i]>> ELSE <<>>) \o NewFrames(H, L, i + 1)

\* C18: after a history response H followed by the live frames L1..Ln, the
\* message list is H followed by those Li whose identifier is not in H and
\* not that of an earlier Lj, in the order of arrival.
C18_HistoryThenLive ==
    arrival.phase = "tracking" =>
        messages = arrival.history \o NewFrames(arrival.history, arrival.live, 1)

\* History <<1>>, then the live frames 2, 1, 2: the list is <<1, 2>>.
C18_Witness ==
    /\ arrival.phase = "tracking"
    /\ arrival.history = <<1>> /\ arrival.live = <<2, 1, 2>>
    /\ messages = <<1, 2>>

IsPrefix(a, b) == Len(a) <= Len(b) /\ \A i \in 1..Len(a) : a[i] = b[i]

\* C19: once the history request of the current activation has ended, every
\* later change of the message list within that activation appends at the
\* end: the list before the step is a prefix of the list after it.
C19_AppendOnlyAfterHistory ==
    [][(fetches[groupId] = 0 /\ activations' = activations) =>
           IsPrefix(messages, messages')]_vars

\* C20: handling one inbound message merges it by identifier.  If the
\* identifier is in the list the list is unchanged; otherwise the new list is
\* the old one with the message appended last; and handling the same frame
\* again leaves the list as the first handling left it.
C20_MergeIdempotent ==
    [][\A s \in SocketIds, m \in MsgIds :
         Message(s, m) =>
             /\ (m \in Ids(messages) => messages' = messages)
             /\ (m \notin Ids(messages) =>
                    /\ Len(messages') = Len(messages) + 1
                    /\ IsPrefix(messages, messages')
                    /\ messages'[Len(messages')] = m)
             /\ Merge(messages', m) = messages']_vars

\* A frame whose identifier the list already held has arrived after the
\* history response: the list holds it once.
C20_Witness ==
    /\ arrival.phase = "tracking" /\ arrival.live # <<>>
    /\ arrival.live[Len(arrival.live)] \in Ids(arrival.history)
    /\ messages = arrival.history

\* C21: right after the open event of a connection is handled, the state is
\* connected and no reconnection timer is pending.
C21_OpenLeavesNoTimer ==
    [][\A s \in SocketIds :
         (Open(s) /\ mounted) =>
             connectionStatus' = "connected" /\ PendingTimers' = {}]_vars

\* C22: handling the close event of any connection sets the state to
\* disconnected, empties the connection handle, schedules one reconnection
\* timer (for the channel of that connection, held in the timer handle) and
\* leaves the message list unchanged.
C22_CloseHandler ==
    [][\A s \in SocketIds :
         Close(s) =>
             /\ connectionStatus' = "disconnected"
             /\ wsRef' = 0
             /\ reconnectTimeoutRef' # 0
             /\ ~timers[reconnectTimeoutRef'].pending
             /\ timers'[reconnectTimeoutRef'] = [pending |-> TRUE, group |-> sockets[s].group]
             /\ \A t \in TimerIds \ {reconnectTimeoutRef'} : timers'[t] = timers[t]
             /\ messages' = messages]_vars

\* A close event has been handled while the list held messages.
C22_Witness ==
    /\ mounted /\ connectionStatus = "disconnected" /\ wsRef = 0
    /\ reconnectTimeoutRef # 0 /\ timers[reconnectTimeoutRef].pending
    /\ messages # <<>>

\* C23: handling a transport error sets the state to error and changes
\* nothing else: no timer is scheduled, and the connection handle, the timer
\* handle, the timers and the message list stay as they were.
C23_ErrorHandler ==
    [][\A s \in SocketIds :
         Error(s) =>
             /\ connectionStatus' = "error"
             /\ UNCHANGED <<wsRef, reconnectTimeoutRef, timers, messages>>
             /\ thrown' = FALSE]_vars

\* A transport error of the connection in the handle has been handled while
\* the list held messages: the handle still holds it and no timer is pending.
C23_Witness ==
    /\ connectionStatus = "error" /\ token = "tok"
    /\ wsRef # 0 /\ sockets[wsRef].rs = "ERRORED"
    /\ PendingTimers = {}
    /\ messages # <<>>

\* C24: when the component is mounted and the state is error after a
\* transport error, the state later is disconnected with a reconnection timer
\* pending: the session does not stay in error for ever.
C24_ErrorLeadsToDisconnected ==
    (mounted /\ connectionStatus = "error"
        /\ \E s \in SocketIds : sockets[s].rs = "ERRORED")
    ~> (connectionStatus = "disconnected" /\ PendingTimers # {})

\* The connection in the handle has had a transport error and its close
\* event is still to come.
C24_Witness ==
    /\ mounted /\ connectionStatus = "error"
    /\ wsRef # 0 /\ sockets[wsRef].rs = "ERRORED" /\ sockets[wsRef].group = groupId

\* C25: the message list changes only in a step that merges an inbound
\* message or that handles a successful history response; open, error,
\* close, timer, send, unmount and channel change leave it as it was.
C25_ListChangedOnlyByMergeAndHistory ==
    [][messages' # messages =>
           \/ \E s \in SocketIds, m \in MsgIds : Message(s, m)
           \/ \E g \in Groups, data \in Histories : FetchOk(g, data)]_vars

\* The channel has changed and nothing has been delivered since: the list
\* still holds what it held on the old channel.
C25_Witness ==
    /\ activations = 2 /\ delivered = {} /\ fetches[groupId] = 1
    /\ messages # <<>>

\* C26: while the component is mounted and the state is connected, the
\* connection handle holds a connection and that connection is open.
C26_ConnectedMeansOpenHandle ==
    (mounted /\ connectionStatus = "connected") =>
        (wsRef # 0 /\ sockets[wsRef].rs = "OPEN")

\* Socket s has been superseded: the handle holds another connection, which
\* connectWebSocket created after s (line 111 puts every new connection in
\* the handle).
Superseded(s) == wsRef # 0 /\ wsRef # s

\* C27: an open, error or close event of a superseded connection leaves the
\* connection state, the connection handle, the timer handle and the timers
\* as they were.
C27_SupersededEventsIgnored ==
    [][\A s \in SocketIds :
         (Superseded(s) /\ (Open(s) \/ Error(s) \/ Close(s))) =>
             UNCHANGED <<connectionStatus, wsRef, reconnectTimeoutRef, timers>>]_vars

\* C28: a history response for a channel other than the current one (the
\* request of an earlier activation) leaves the message list as it was.
C28_StaleHistoryIgnored ==
    [][\A g \in Groups, data \in Histories :
         (FetchOk(g, data) /\ g # groupId) => messages' = messages]_vars

\* C29: an activation that finds no token issues no history request: the
\* requests in flight and the count of requests stay as they were, and the
\* state is error.
C29_NoTokenNoHistoryRequest ==
    [][\A g \in Groups :
         (ChangeGroup(g) /\ TokenMissing(token)) =>
             /\ connectionStatus' = "error"
             /\ fetches' = fetches
             /\ requests' = requests]_vars

\* C30: while the component is mounted and the state is disconnected, a
\* reconnection timer is pending.
C30_DisconnectedHasTimer ==
    (mounted /\ connectionStatus = "disconnected") => PendingTimers # {}

\* The connection of the current channel has closed and its reconnection is
\* scheduled: the timer in the timer handle is pending.
C30_Witness ==
    /\ mounted /\ connectionStatus = "disconnected"
    /\ reconnectTimeoutRef # 0 /\ timers[reconnectTimeoutRef].pending
    /\ timers[reconnectTimeoutRef].group = groupId
    /\ activations = MaxActivations
====
